---- MODULE Spec2Model ----
(***************************************************************************)
(* Spot-grid fitting and source matching of mixcoatl:                      *)
(*   scripts/archive/fit_spot_grid.py   (SpotFitter, SourceGrid, main)     *)
(*   python/mixcoatl/sourceGridTask.py  (SourceGridTask)                   *)
(*                                                                         *)
(* Floating point values are modelled in fixed point: lengths in units of  *)
(* 1/LenUnit pixel, angles in units of 1/AngUnit radian.  A float NaN is   *)
(* the value NaN, which every arithmetic helper propagates and every       *)
(* comparison helper answers FALSE on, as IEEE arithmetic does.            *)
(***************************************************************************)
EXTENDS Integers, Sequences, FiniteSets, TLC

VARIABLES
    \* ---- one run of SpotFitter.run / SourceGridTask.run
    prog,            \* "SpotFitter" or "SourceGridTask": which run() executes
    infile,          \* the path run() is given
    src,             \* the catalog read by fits.getdata(infile)
    ccd,             \* [y, x]: what lct.focalMmToCcdPixel returned
    max_displacement,\* self.max_displacement / self.config.max_displacement
    pc,              \* position in run()
    est,             \* locals of the estimator: y, x, nn tables, med_dist, arrays, i, j
    seed,            \* [dy, dx, theta]: the estimator's result
    params,          \* the guess and bounds handed to scipy.optimize.minimize
    fit_eval,        \* how the evaluation of grid_fit_error ended
    model_grid,      \* [dy, dx, theta, y0, x0]: the grid from_source_catalog returns
    out,             \* the table of lines 43-86, which follow the fit
    \* ---- SourceGrid.make_grid as a function of its own
    gp,              \* [dy, dx, theta, y0, x0, nrows, ncols]
    gpc,             \* position in make_grid
    gmesh,           \* [Y, X]: the flattened meshgrid, before rotation
    gout,            \* [Y, X]: what make_grid returns
    \* ---- main()
    num_processes, cpu_count, mpc, pool_size,
    catalog_list,    \* the input paths given to main()
    tasks,           \* pool.map: the inputs no worker has taken yet
    workers,         \* per pool worker: position in run(), infile
    files,           \* the output files written and closed
    results          \* per finished run: the input and how the run ended

inVars   == <<prog, infile, src, ccd, max_displacement>>
runVars  == <<inVars, pc, est, seed, params, fit_eval, model_grid, out>>
gridVars == <<gp, gpc, gmesh, gout>>
poolVars == <<catalog_list, tasks, workers, files, results>>
mainVars == <<num_processes, cpu_count, mpc, pool_size, poolVars>>
vars     == <<runVars, gridVars, mainVars>>

----------------------------------------------------------------------------
(* Fixed point numbers *)

LenUnit == 10 * 10          \* one pixel
AngUnit == 100 * 100        \* one radian
NaN     == 0 - 999999999    \* float('nan')

IsNaN(a)  == a = NaN
Add(a, b) == IF IsNaN(a) \/ IsNaN(b) THEN NaN ELSE a + b
Sub(a, b) == IF IsNaN(a) \/ IsNaN(b) THEN NaN ELSE a - b
Abs(a)    == IF IsNaN(a) THEN NaN ELSE IF a < 0 THEN 0 - a ELSE a
\* division rounding to the nearest unit, symmetric about 0
DivR(a, d) == IF a >= 0 THEN (2 * a + d) \div (2 * d)
                        ELSE 0 - ((2 * (0 - a) + d) \div (2 * d))
Half(a)   == IF IsNaN(a) THEN NaN ELSE DivR(a, 2)
\* IEEE comparisons: FALSE as soon as one side is NaN
Gt(a, b)  == ~IsNaN(a) /\ ~IsNaN(b) /\ a > b
Ge(a, b)  == ~IsNaN(a) /\ ~IsNaN(b) /\ a >= b

RECURSIVE SqrtIter(_, _)
SqrtIter(n, x) ==
    LET y == (x + n \div x) \div 2
    IN  IF y >= x THEN x ELSE SqrtIter(n, y)
\* floor of the square root
RECURSIVE SqrtStart(_, _)
SqrtStart(n, x) == IF x * x >= n THEN x ELSE SqrtStart(n, 2 * x)
ISqrt(n) == IF n <= 1 THEN n ELSE SqrtIter(n, SqrtStart(n, 1))

\* np.hypot / the euclidean metric of cdist
Hypot(a, b) == IF IsNaN(a) \/ IsNaN(b) THEN NaN ELSE ISqrt(a * a + b * b)

----------------------------------------------------------------------------
(* Angles *)

PiOver4 == 7854             \* np.pi/4.
PiOver2 == 2 * PiOver4      \* np.pi/2.

RECURSIVE Gcd(_, _)
Gcd(a, b) == IF b = 0 THEN a ELSE Gcd(b, a % b)

\* np.arctan(dy/dx) for dy, dx > 0, rounded to the nearest 1/AngUnit radian.
\* The table holds every slope n/d with n, d in 1..4.
ArcTanTable(n, d) ==
    CASE n = 1 /\ d = 4 -> 2450   [] n = 1 /\ d = 3 -> 3218
      [] n = 1 /\ d = 2 -> 4636   [] n = 2 /\ d = 3 -> 5880
      [] n = 3 /\ d = 4 -> 6435   [] n = 1 /\ d = 1 -> PiOver4
      [] n = 4 /\ d = 3 -> 9273   [] n = 3 /\ d = 2 -> 9828
      [] n = 2 /\ d = 1 -> 11071  [] n = 3 /\ d = 1 -> 12490
      [] n = 4 /\ d = 1 -> 13258
ArcTan(dy, dx) == LET g == Gcd(dy, dx) IN ArcTanTable(dy \div g, dx \div g)

\* a * b of two fixed point numbers, the second in units of 1/AngUnit
MulU(a, b) == DivR(a * b, AngUnit)

\* k-th term and the following ones of the Taylor series of cos (k even) or
\* sin (k odd): term is t^k/k! with its sign
RECURSIVE Taylor(_, _, _, _)
Taylor(t, term, k, last) ==
    IF k > last THEN 0
    ELSE term + Taylor(t, 0 - DivR(MulU(MulU(term, t), t), (k + 1) * (k + 2)),
                       k + 2, last)
Cos(t) == IF IsNaN(t) THEN NaN ELSE Taylor(t, AngUnit, 0, 12)
Sin(t) == IF IsNaN(t) THEN NaN ELSE Taylor(t, t, 1, 13)

\* cos(t)*a and sin(t)*a, NaN when either is
Times(c, a) == IF IsNaN(c) \/ IsNaN(a) THEN NaN ELSE MulU(a, c)

----------------------------------------------------------------------------
(* Sequences *)

RECURSIVE Flatten(_)
\* ndarray.flatten() of a two dimensional array given as a sequence of rows
Flatten(rows) == IF rows = <<>> THEN <<>> ELSE Head(rows) \o Flatten(Tail(rows))

\* an array with its entries computed
AsArray(a) == a \o <<>>

\* a[mask]: the entries of a at the positions where the boolean array mask
\* holds, from position k on
RECURSIVE SelectIdx(_, _, _)
SelectIdx(a, mask, k) ==
    IF k > Len(a) THEN <<>>
    ELSE (IF mask[k] THEN <<a[k]>> ELSE <<>>) \o SelectIdx(a, mask, k + 1)

\* the order of np.sort / np.argsort on floats: ascending, NaN last
KeyBefore(D, a, b) == ~IsNaN(D[a]) /\ (IsNaN(D[b]) \/ D[a] < D[b])

\* np.argsort(kind='quicksort') does not say in which order it leaves equal
\* keys, it depends on the numpy build: every order of the indices in S
\* that is ascending in the keys is one a build may return.  The orders are
\* cut to their first k entries.
RECURSIVE ArgSorts(_, _, _)
ArgSorts(D, S, k) ==
    IF S = {} \/ k = 0 THEN {<<>>}
    ELSE LET first == {a \in S : \A b \in S : ~KeyBefore(D, b, a)}
         IN  UNION {{<<a>> \o t : t \in ArgSorts(D, S \ {a}, k - 1)} : a \in first}

\* np.sort: the values in ascending order, where the order of equal keys
\* does not show
Before(D, a, b) ==
    \/ KeyBefore(D, a, b)
    \/ (D[a] = D[b]) /\ a < b
Rank(D, a) == Cardinality({b \in 1..Len(D) : Before(D, b, a)})
ArgSort(D) == LET rk == AsArray([a \in 1..Len(D) |-> Rank(D, a)])
              IN  AsArray([r \in 1..Len(D) |-> CHOOSE a \in 1..Len(D) : rk[a] = r - 1])
Sort(D)    == LET ix == ArgSort(D) IN AsArray([r \in 1..Len(D) |-> D[ix[r]]])

\* np.median: NaN for an empty array or when any entry is NaN, else the
\* middle entry, or the mean of the two middle entries
Median(D) ==
    IF Len(D) = 0 \/ (\E k \in 1..Len(D) : IsNaN(D[k])) THEN NaN
    ELSE LET s == Sort(D)
             n == Len(D)
         IN  IF n % 2 = 1 THEN s[(n + 1) \div 2]
             ELSE DivR(s[n \div 2] + s[n \div 2 + 1], 2)
\* np.nanmedian: the median of the entries that are not NaN
NanMedian(D) == Median(SelectIdx(D, [k \in 1..Len(D) |-> ~IsNaN(D[k])], 1))

----------------------------------------------------------------------------
(* Paths: a path is the sequence of its characters *)

\* str.rfind(ch): the last position of ch in s, 0 when there is none
RFind(s, ch) ==
    LET at == {k \in 1..Len(s) : s[k] = ch}
    IN  IF at = {} THEN 0 ELSE CHOOSE k \in at : \A m \in at : m <= k

\* os.path.basename(p): what follows the last "/"
basename(p) == SubSeq(p, RFind(p, "/") + 1, Len(p))

\* os.path.splitext(b)[0] for a name without "/": cut at the last ".",
\* unless only dots come before it
splitext0(b) ==
    LET dot == RFind(b, ".")
    IN  IF dot > 0 /\ \E k \in 1..(dot - 1) : b[k] # "."
        THEN SubSeq(b, 1, dot - 1)
        ELSE b

\* s.split('_'): the pieces between the underscores
RECURSIVE Split(_)
Split(s) ==
    LET at == {k \in 1..Len(s) : s[k] = "_"}
    IN  IF at = {} THEN <<s>>
        ELSE LET k == CHOOSE m \in at : \A n \in at : n <= m
             IN  Split(SubSeq(s, 1, k - 1)) \o <<SubSeq(s, k + 1, Len(s))>>

\* s[:-n]
DropLast(s, n) == SubSeq(s, 1, Len(s) - n)

\* float(s) succeeds: over the characters of the paths used here, digits with
\* at most one "." and at least one digit
Digits == {"1", "2"}
IsFloat(s) ==
    /\ \E k \in 1..Len(s) : s[k] \in Digits
    /\ \A k \in 1..Len(s) : s[k] \in Digits \cup {"."}
    /\ Cardinality({k \in 1..Len(s) : s[k] = "."}) <= 1

\* lines 29-31: how parsing the projector position out of the name ends
ParseOutcome(path) ==
    LET parts == Split(basename(path))
        n     == Len(parts)
    IN  IF ~IsFloat(DropLast(parts[n], 5)) THEN "ValueError"
        ELSE IF n < 2 THEN "IndexError"
        ELSE IF ~IsFloat(DropLast(parts[n - 1], 1)) THEN "ValueError"
        ELSE "ok"

\* os.path.join(a, b)
Join(a, b) ==
    IF b # <<>> /\ b[1] = "/" THEN b
    ELSE IF a = <<>> \/ a[Len(a)] = "/" THEN a \o b
    ELSE a \o <<"/">> \o b

\* output_dir='./'
OutputDir == <<".", "/">>
OutSuffix == 
    <<"_", "r", "a", "w", "_", "d", "i", "s", "p", "l", "a", "c", "e", "m", "e", "n", "t", "_">> \o
    <<"d", "a", "t", "a", ".", "f", "i", "t", "s">>

\* line 85: join(self.output_dir,
\*   '{0}_raw_displacement_data.fits'.format(os.path.splitext(basename)[0]))
OutFile(path) == Join(OutputDir, splitext0(basename(path)) \o OutSuffix)

\* the catalog paths a run or a batch may be given
Paths ==
    { <<"a", "/", "g", "_", "1", "x", "_", "2", ".", "f", "i", "t", "s">>,
      <<"b", "/", "g", "_", "1", "x", "_", "2", ".", "f", "i", "t", "s">>,
      <<"a", "/", "g", "_", "2", "x", "_", "1", ".", "f", "i", "t", "s">>,
      <<"a", "/", "g", "_", "1", "x", "_", "2", ".", "f", "i", "s", "t">>,
      <<"a", "/", "g", ".", "f", "i", "t", "s">> }

\* one of them
CatalogPath == <<"a", "/", "g", "_", "1", "x", "_", "2", ".", "f", "i", "t", "s">>

----------------------------------------------------------------------------
(* Inputs *)

MaxSources == 6     \* the largest catalog
NRows      == 2     \* stands for nrows = 49
NCols      == 3     \* stands for ncols = 49

Px(n) == n * LenUnit

\* One catalog row.  cy, cx: base_SdssCentroid_y/x; y, x: base_SdssShape_y/x;
\* xx, yy: base_SdssShape_xx/yy (pixel^2); flux: base_SdssShape_instFlux.
Source(y, x, xx, yy, flux) ==
    [cy |-> y, cx |-> x, y |-> y, x |-> x, xx |-> xx, yy |-> yy, flux |-> flux]

\* The detections catalogs are made of: a row of five spots 10 pixels apart,
\* three spots above it, one of them with a shape too small for
\* SourceGridTask's curation and one whose shape and flux were not measured,
\* and a detection without a measurement.
Pool == <<
    Source(Px(0),  Px(0),  11, 21, 100),
    Source(Px(0),  Px(10), 12, 22, 200),
    Source(Px(0),  Px(20), 13, 23, 300),
    Source(Px(0),  Px(30), 14, 24, 400),
    Source(Px(0),  Px(40),  2,  2, 500),
    Source(Px(10), Px(20), 16, 26, 600),
    Source(Px(20), Px(10), NaN, NaN, NaN),
    Source(NaN, NaN, NaN, NaN, NaN) >>

RECURSIVE Pick(_, _)
\* the rows of Pool whose index is in S, in Pool's order
Pick(S, k) ==
    IF k > Len(Pool) THEN <<>>
    ELSE (IF k \in S THEN <<Pool[k]>> ELSE <<>>) \o Pick(S, k + 1)
Catalogs ==
    {Pick(S, 1) : S \in {T \in SUBSET (1..Len(Pool)) :
                            Cardinality(T) >= 1 /\ Cardinality(T) <= MaxSources}}

\* what lct.focalMmToCcdPixel answers: a position that puts SpotFitter's
\* guess on the spots
CcdPositions == { [y |-> Px(72), x |-> Px(4072 - 27 - 20)] }
\* max_displacement=10.
DefaultDisplacement == Px(10)

Col(cat, f) == AsArray([k \in 1..Len(cat) |-> cat[k][f]])

----------------------------------------------------------------------------
(* Spatial index *)

\* distance.cdist row a: the distances from (y0[a], x0[a]) to every (y1, x1)
DistRow(y0, x0, y1, x1, a) ==
    AsArray([b \in 1..Len(y1) |-> Hypot(Sub(y0[a], y1[b]), Sub(x0[a], x1[b]))])

\* the same row squared, which is exact: the order of the distances is the
\* order of their squares
SqDist(dy, dx) == IF IsNaN(dy) \/ IsNaN(dx) THEN NaN ELSE dy * dy + dx * dx
SqDistRow(y0, x0, y1, x1, a) ==
    AsArray([b \in 1..Len(y1) |-> SqDist(Sub(y0[a], y1[b]), Sub(x0[a], x1[b]))])

\* one row of np.sort(distance_array, axis=1), from the row of squared
\* distances
SortedRow(D2) ==
    LET ix == ArgSort(D2)
    IN  AsArray([r \in 1..Len(D2) |-> IF IsNaN(D2[ix[r]]) THEN NaN ELSE ISqrt(D2[ix[r]])])

\* the tables whose row a is one of the rows R[a], from row a on
RECURSIVE Tables(_, _)
Tables(R, a) ==
    IF a > Len(R) THEN {<<>>}
    ELSE UNION {{<<r>> \o t : t \in Tables(R, a + 1)} : r \in R[a]}

\* coordinate_distances: per point of the first set, the indices (1-based)
\* of the second set's points by ascending distance, and those distances.
\* The answer is every pair a build may return; of indices the first cols
\* columns are kept, those the caller reads.
coordinate_distances(y0, x0, y1, x1, cols) ==
    LET D2 == AsArray([a \in 1..Len(y0) |-> SqDistRow(y0, x0, y1, x1, a)])
        R  == AsArray([a \in 1..Len(y0) |-> ArgSorts(D2[a], 1..Len(y1), cols)])
        distances == AsArray([a \in 1..Len(y0) |-> SortedRow(D2[a])])
    IN  {[ indices |-> indices, distances |-> distances ] : indices \in Tables(R, 1)}

\* a[:, 0:4] in place of a[:, 1:5]
Slice04(row) == AsArray([k \in 1..(IF Len(row) >= 4 THEN 4 ELSE Len(row)) |-> row[k]])

\* a[:, 1:5] of one row: columns 2 to 5 (1-based), as many as there are
Slice15(row) == AsArray([k \in 1..(IF Len(row) >= 5 THEN 4
                                   ELSE IF Len(row) >= 1 THEN Len(row) - 1 ELSE 0)
                         |-> row[k + 1]])

\* remove_nan_coords: drop the points with a NaN coordinate
remove_nan_coords(y, x) ==
    [ y |-> SelectIdx(y, [k \in 1..Len(y) |-> ~IsNaN(y[k]) /\ ~IsNaN(x[k])], 1),
      x |-> SelectIdx(x, [k \in 1..Len(x) |-> ~IsNaN(y[k]) /\ ~IsNaN(x[k])], 1) ]

----------------------------------------------------------------------------
(* Initial parameter estimator: SourceGrid.from_source_catalog lines 127-174,
   SourceGridTask.run lines 56-105 *)

OutlierCut  == 10    \* pixels: np.abs(nn_dist - med_dist) > 10.
ShapeCut    == 4     \* pixels: srcW > 4.

\* SourceGridTask's curation: srcW = sqrt(XX^2 + YY^2), mask = srcW > 4.
\* The task reads the X column into srcY and the Y column into srcX.
CuratedCoords(cat) ==
    LET srcW(k) == Hypot(IF IsNaN(cat[k].xx) THEN NaN ELSE Px(cat[k].xx),
                         IF IsNaN(cat[k].yy) THEN NaN ELSE Px(cat[k].yy))
        keep == [k \in 1..Len(cat) |-> Gt(srcW(k), Px(ShapeCut))]
    IN  [ y |-> SelectIdx(Col(cat, "x"), keep, 1),
          x |-> SelectIdx(Col(cat, "y"), keep, 1) ]

\* the positions the estimator works on
EstimatorCoords(p, cat) ==
    IF p = "SpotFitter" THEN remove_nan_coords(Col(cat, "cy"), Col(cat, "cx"))
                        ELSE CuratedCoords(cat)

\* the locals of the estimator before its loop, cd being what
\* coordinate_distances returned
EstimatorLocals(p, cat, cd) ==
    LET pts == EstimatorCoords(p, cat)
        n   == Len(pts.y)
        nnd == [a \in 1..n |-> Slice15(cd.distances[a])]
    IN  [ y |-> pts.y, x |-> pts.x, nsources |-> n,
          indices      |-> cd.indices,
          distances    |-> cd.distances,
          nn_indices   |-> [a \in 1..n |-> Slice15(cd.indices[a])],
          nn_distances |-> nnd,
          med_dist     |-> Median(Flatten(nnd)),
          dist1_array  |-> [a \in 1..n |-> NaN],
          dist2_array  |-> [a \in 1..n |-> NaN],
          theta_array  |-> [a \in 1..n |-> NaN],
          i |-> 1, j |-> 1 ]

\* >= in place of >
Discarded_AtTen(nn_dist, med_dist) == Ge(Abs(Sub(nn_dist, med_dist)), Px(OutlierCut))

\* if np.abs(nn_dist - med_dist) > 10.: continue
Discarded(nn_dist, med_dist) == Gt(Abs(Sub(nn_dist, med_dist)), Px(OutlierCut))

\* the body of the inner loop for neighbour j of source i
LoopBody(e, i, j) ==
    LET nn_dist == e.nn_distances[i][j]
        y0 == e.y[i]
        x0 == e.x[i]
        y1 == e.y[e.nn_indices[i][j]]
        x1 == e.x[e.nn_indices[i][j]]
    IN  IF Discarded(nn_dist, e.med_dist) THEN e
        ELSE IF Gt(x1, x0)
        THEN IF Gt(y1, y0)
             THEN [e EXCEPT !.dist1_array[i] = nn_dist,
                            !.theta_array[i] = ArcTan(y1 - y0, x1 - x0)]
             ELSE [e EXCEPT !.dist2_array[i] = nn_dist]
        ELSE e

\* for i in range(nsources): for j in range(4): the next (i, j), and whether
\* there is one
Advance(e, i, j) ==
    IF j < 4 THEN [e EXCEPT !.j = j + 1]
    ELSE [e EXCEPT !.i = i + 1, !.j = 1]
LoopDone(e) == e.i > e.nsources

\* theta > pi/4 in place of theta >= pi/4
EstimatorResult_Strict(e) ==
    LET theta == NanMedian(e.theta_array)
    IN  IF Gt(theta, PiOver4)
        THEN [ theta |-> theta - PiOver2,
               dx |-> NanMedian(e.dist2_array),
               dy |-> NanMedian(e.dist1_array) ]
        ELSE [ theta |-> theta,
               dx |-> NanMedian(e.dist1_array),
               dy |-> NanMedian(e.dist2_array) ]

\* theta, and the spacings after the swap, from the three arrays
EstimatorResult(e) ==
    LET theta == NanMedian(e.theta_array)
    IN  IF Ge(theta, PiOver4)
        THEN [ theta |-> theta - PiOver2,
               dx |-> NanMedian(e.dist2_array),
               dy |-> NanMedian(e.dist1_array) ]
        ELSE [ theta |-> theta,
               dx |-> NanMedian(e.dist1_array),
               dy |-> NanMedian(e.dist2_array) ]

NoEst  == [ nsources |-> 0 ]
NoSeed == [ theta |-> NaN, dx |-> NaN, dy |-> NaN ]

\* lines 127-142 / 56-76: select the positions, index the neighbours
EstimateBegin ==
    /\ pc = "start"
    /\ LET pts == EstimatorCoords(prog, src)
       IN  \E cd \in coordinate_distances(pts.y, pts.x, pts.y, pts.x, 5) :
             est' = EstimatorLocals(prog, src, cd)
    /\ pc' = "loop"
    /\ UNCHANGED <<inVars, seed, params, fit_eval, model_grid, out>>
    /\ UNCHANGED <<gridVars, mainVars>>

\* lines 145-164 / 78-95: one pass of the inner loop.  nn_distances[i, j]
\* raises IndexError when the row has no column j (fewer than 5 sources).
NeighbourStep ==
    /\ pc = "loop"
    /\ ~LoopDone(est)
    /\ IF est.j > Len(est.nn_distances[est.i])
       THEN /\ pc' = "IndexError"
            /\ est' = est
       ELSE /\ est' = Advance(LoopBody(est, est.i, est.j), est.i, est.j)
            /\ pc' = "loop"
    /\ UNCHANGED <<inVars, seed, params, fit_eval, model_grid, out>>
    /\ UNCHANGED <<gridVars, mainVars>>

\* lines 166-174 / 97-105: aggregate the samples
Aggregate ==
    /\ pc = "loop"
    /\ LoopDone(est)
    /\ seed' = EstimatorResult(est)
    /\ pc' = "fit"
    /\ UNCHANGED <<inVars, est, params, fit_eval, model_grid, out>>
    /\ UNCHANGED <<gridVars, mainVars>>

----------------------------------------------------------------------------
(* Grid model: SourceGrid.make_grid *)

Mul(n, a) == IF IsNaN(a) THEN NaN ELSE n * a

\* [n*d - (count-1)*d/2. for n in range(count)]
AxisArray(d, count) ==
    AsArray([k \in 1..count |-> Sub(Mul(k - 1, d), Half(Mul(count - 1, d)))])

\* np.meshgrid(y_array, x_array, indexing='ij')
MeshGrid_ij(y_array, x_array) ==
    [ Y |-> [i \in 1..Len(y_array) |-> [j \in 1..Len(x_array) |-> y_array[i]]],
      X |-> [i \in 1..Len(y_array) |-> [j \in 1..Len(x_array) |-> x_array[j]]] ]

\* Y, X = np.meshgrid(y_array, x_array): both of shape
\* (len(x_array), len(y_array)), Y[i][j] = y_array[j] and X[i][j] = x_array[i]
MeshGrid(y_array, x_array) ==
    [ Y |-> [i \in 1..Len(x_array) |-> [j \in 1..Len(y_array) |-> y_array[j]]],
      X |-> [i \in 1..Len(x_array) |-> [j \in 1..Len(y_array) |-> x_array[i]]] ]

\* lines 191-193
GridMesh(g, rows, cols) == MeshGrid(AxisArray(g.dy, rows), AxisArray(g.dx, cols))

\* lines 196-204: rotate by theta, move to (y0, x0), flatten
RotateShiftFlatten(g, m) ==
    LET c == Cos(g.theta)
        s == Sin(g.theta)
        Xr == [i \in 1..Len(m.X) |-> [j \in 1..Len(m.X[i]) |->
                 Add(Sub(Times(c, m.X[i][j]), Times(s, m.Y[i][j])), g.x0)]]
        Yr == [i \in 1..Len(m.Y) |-> [j \in 1..Len(m.Y[i]) |->
                 Add(Add(Times(s, m.X[i][j]), Times(c, m.Y[i][j])), g.y0)]]
    IN  [ Y |-> Flatten(Yr), X |-> Flatten(Xr) ]

make_grid(g, rows, cols) == RotateShiftFlatten(g, GridMesh(g, rows, cols))

----------------------------------------------------------------------------
(* Grid fitter: from_source_catalog lines 176-185 and grid_fit_error,
   SourceGridTask.run lines 107-138 *)

\* grid_fit_error(params, src_y, src_x, nrows, ncols): line 283 names
\* BaseGrid, which fit_spot_grid.py neither defines nor imports, so every
\* call raises NameError there and lines 284-291 never run.
grid_fit_error(g, src_y, src_x, rows, cols) ==
    [ raised |-> "NameError", name |-> "BaseGrid" ]

\* y_guess, x_guess of SpotFitter.run lines 36-37; x0_guess, y0_guess of
\* SourceGridTask.run lines 51-52
GuessY(p, c) == IF p = "SpotFitter" THEN c.y - Px(67) ELSE c.y
GuessX(p, c) == IF p = "SpotFitter" THEN Px(2 * 509 * 4) - c.x - Px(27)
                                    ELSE Px(2 * 509 * 4) - c.x

\* lines 177-179 of fit_spot_grid.py: the guess and the bounds of SLSQP
SlsqpParams(sd, c) ==
    [ guess  |-> [ dy |-> sd.dy, dx |-> sd.dx, theta |-> sd.theta,
                   y0 |-> GuessY("SpotFitter", c), x0 |-> GuessX("SpotFitter", c) ],
      bounds |-> [ dy |-> <<sd.dy, sd.dy>>, dx |-> <<sd.dx, sd.dx>>,
                   theta |-> <<sd.theta, sd.theta>>,
                   y0 |-> <<"None", "None">>, x0 |-> <<"None", "None">> ] ]

\* sourceGridTask.py lines 51-52: the guess SourceGridTask holds when line
\* 114 is reached
TaskGuess(c) ==
    [ guess |-> [ y0 |-> GuessY("SourceGridTask", c),
                  x0 |-> GuessX("SourceGridTask", c) ] ]

NoParams == [ guess |-> <<>> ]
NoEval   == [ raised |-> "none" ]
NoGrid   == [ dy |-> NaN, dx |-> NaN, theta |-> NaN, y0 |-> NaN, x0 |-> NaN ]
NoOut    == [ table |-> <<>>, nn_indices |-> <<>> ]

\* fit_spot_grid.py lines 176-185: scipy.optimize.minimize evaluates
\* grid_fit_error at the guess, the NameError leaves minimize,
\* from_source_catalog and run: no grid is returned and nothing is written
FitSlsqp ==
    /\ pc = "fit"
    /\ prog = "SpotFitter"
    /\ params' = SlsqpParams(seed, ccd)
    /\ fit_eval' = grid_fit_error(SlsqpParams(seed, ccd).guess, est.y, est.x, NCols, NRows)
    /\ pc' = grid_fit_error(SlsqpParams(seed, ccd).guess, est.y, est.x, NCols, NRows).raised
    /\ UNCHANGED <<inVars, est, seed, model_grid, out>>
    /\ UNCHANGED <<gridVars, mainVars>>

\* sourceGridTask.py lines 107-114: params = Parameters() names Parameters,
\* which the module neither defines nor imports (nor Minimizer, fit_error,
\* ncols, nrows further down): run raises NameError and lines 115-194 never
\* run
FitParameters ==
    /\ pc = "fit"
    /\ prog = "SourceGridTask"
    /\ params' = TaskGuess(ccd)
    /\ pc' = "NameError"
    /\ UNCHANGED <<inVars, est, seed, fit_eval, model_grid, out>>
    /\ UNCHANGED <<gridVars, mainVars>>

----------------------------------------------------------------------------
(* One run *)

PoolIdle == /\ catalog_list = <<>>
            /\ tasks = <<>>
            /\ workers = <<>>
            /\ files = {}
            /\ results = {}
GridIdle == /\ gp = [ dy |-> 0, dx |-> 0, theta |-> 0, y0 |-> 0, x0 |-> 0,
                      nrows |-> 0, ncols |-> 0 ]
            /\ gpc = "idle"
            /\ gmesh = [ Y |-> <<>>, X |-> <<>> ]
            /\ gout = [ Y |-> <<>>, X |-> <<>> ]
MainIdle == /\ num_processes = 0
            /\ cpu_count = 0
            /\ mpc = "idle"
            /\ pool_size = 0
            /\ PoolIdle
RunIdle  == /\ prog = "none"
            /\ infile = <<>>
            /\ src = <<>>
            /\ ccd = [ y |-> 0, x |-> 0 ]
            /\ max_displacement = 0
            /\ pc = "idle"
            /\ est = NoEst
            /\ seed = NoSeed
            /\ params = NoParams
            /\ fit_eval = NoEval
            /\ model_grid = NoGrid
            /\ out = NoOut

\* run() after lines 29-40: the name parsed, the catalog read
Init ==
    /\ prog \in {"SpotFitter", "SourceGridTask"}
    /\ infile = CatalogPath
    /\ src \in Catalogs
    /\ ccd \in CcdPositions
    /\ max_displacement = DefaultDisplacement
    /\ pc = "start"
    /\ est = NoEst
    /\ seed = NoSeed
    /\ params = NoParams
    /\ fit_eval = NoEval
    /\ model_grid = NoGrid
    /\ out = NoOut
    /\ GridIdle
    /\ MainIdle

Next ==
    \/ EstimateBegin
    \/ NeighbourStep
    \/ Aggregate
    \/ FitSlsqp
    \/ FitParameters

Spec == Init /\ [][Next]_vars

----------------------------------------------------------------------------
(* SourceGrid.make_grid on its own *)

GridInputs ==
    [ dy : {Px(10), Px(12)}, dx : {Px(10), Px(15)},
      theta : {0, 500, 0 - PiOver4}, y0 : {0, Px(5)}, x0 : {0, Px(7)},
      nrows : 1..NRows, ncols : 1..NCols ]

InitGrid ==
    /\ gp \in GridInputs
    /\ gpc = "start"
    /\ gmesh = [ Y |-> <<>>, X |-> <<>> ]
    /\ gout = [ Y |-> <<>>, X |-> <<>> ]
    /\ RunIdle
    /\ MainIdle

\* lines 191-193: the axis arrays and the meshgrid; gmesh holds Y and X in the
\* order flatten() gives them
GridMeshStep ==
    /\ gpc = "start"
    /\ LET m == GridMesh(gp, gp.nrows, gp.ncols)
       IN  gmesh' = [ Y |-> Flatten(m.Y), X |-> Flatten(m.X) ]
    /\ gpc' = "meshed"
    /\ UNCHANGED <<gp, gout>>
    /\ UNCHANGED <<runVars, mainVars>>

\* lines 196-204
GridRotateStep ==
    /\ gpc = "meshed"
    /\ gout' = make_grid(gp, gp.nrows, gp.ncols)
    /\ gpc' = "done"
    /\ UNCHANGED <<gp, gmesh>>
    /\ UNCHANGED <<runVars, mainVars>>

NextGrid == GridMeshStep \/ GridRotateStep

SpecGrid == InitGrid /\ [][NextGrid]_vars

----------------------------------------------------------------------------
(* main(): fit_spot_grid.py lines 293-299 *)

MaxProcs == 6       \* the largest --num_processes
MaxCores == 8       \* the largest mp.cpu_count()

Max(a, b) == IF a >= b THEN a ELSE b
Min(a, b) == IF a <= b THEN a ELSE b

\* mp.cpu_count() in place of mp.cpu_count()-1
PoolSize_AllCores(requested, cores) == Max(1, Min(requested, cores))

\* num_processes = max(1, min(num_processes, mp.cpu_count()-1))
PoolSize(requested, cores) == Max(1, Min(requested, cores - 1))

InitMain ==
    /\ num_processes \in (0 - 1)..MaxProcs
    /\ cpu_count \in 1..MaxCores
    /\ mpc = "start"
    /\ pool_size = 0
    /\ PoolIdle
    /\ RunIdle
    /\ GridIdle

\* line 297-298: pool = mp.Pool(num_processes)
MainPool ==
    /\ mpc = "start"
    /\ pool_size' = PoolSize(num_processes, cpu_count)
    /\ mpc' = "pool"
    /\ UNCHANGED <<num_processes, cpu_count, poolVars>>
    /\ UNCHANGED <<runVars, gridVars>>

NextMain == MainPool

SpecMain == InitMain /\ [][NextMain]_vars

----------------------------------------------------------------------------
(* The batch: main() line 299, pool.map(spot_fitter.run, catalog_list) *)

MaxFiles      == 3     \* the longest catalog_list
MaxBatchProcs == 2     \* the largest --num_processes of a batch
MaxBatchCores == 3     \* the largest mp.cpu_count() of a batch

\* catalog_list: distinct paths, nargs='+'
CatalogLists ==
    UNION { { l \in [1..n -> Paths] : \A a, b \in 1..n : a # b => l[a] # l[b] }
            : n \in 1..MaxFiles }

IdleWorker == [ pc |-> "idle", infile |-> <<>> ]

InitBatch ==
    /\ num_processes \in 1..MaxBatchProcs
    /\ cpu_count \in 1..MaxBatchCores
    /\ catalog_list \in CatalogLists
    /\ mpc = "start"
    /\ pool_size = 0
    /\ tasks = <<>>
    /\ workers = <<>>
    /\ files = {}
    /\ results = {}
    /\ RunIdle
    /\ GridIdle

\* line 299: pool.map queues every input (chunks of one input for a list of
\* at most four inputs per worker) for the pool's workers
PoolMap ==
    /\ mpc = "pool"
    /\ tasks' = catalog_list
    /\ workers' = [w \in 1..pool_size |-> IdleWorker]
    /\ mpc' = "map"
    /\ UNCHANGED <<num_processes, cpu_count, pool_size, catalog_list, files, results>>
    /\ UNCHANGED <<runVars, gridVars>>

\* an idle worker takes the next input and calls spot_fitter.run(infile)
WorkerTake ==
    /\ mpc = "map"
    /\ tasks # <<>>
    /\ \E w \in 1..Len(workers) :
         /\ workers[w].pc = "idle"
         /\ workers' = [workers EXCEPT ![w] =
                          [ pc |-> "run", infile |-> Head(tasks) ]]
    /\ tasks' = Tail(tasks)
    /\ UNCHANGED <<num_processes, cpu_count, mpc, pool_size, catalog_list, files, results>>
    /\ UNCHANGED <<runVars, gridVars>>

\* how run(path) ends: lines 30-31 raise on a name they cannot parse; past
\* them the estimator raises IndexError at line 160 or the objective raises
\* NameError at line 283, as the catalog has it
RunOutcomes(path) ==
    IF ParseOutcome(path) # "ok" THEN {ParseOutcome(path)}
    ELSE {"IndexError", "NameError"}

\* run raises: the pool keeps the exception as the run's result and the
\* worker goes on with the next input
WorkerRaise ==
    /\ mpc = "map"
    /\ \E w \in 1..Len(workers) :
         /\ workers[w].pc = "run"
         /\ \E o \in RunOutcomes(workers[w].infile) :
              results' = results \cup {[ infile |-> workers[w].infile, outcome |-> o ]}
         /\ workers' = [workers EXCEPT ![w] = IdleWorker]
    /\ UNCHANGED <<num_processes, cpu_count, mpc, pool_size, catalog_list, tasks, files>>
    /\ UNCHANGED <<runVars, gridVars>>

NextBatch ==
    \/ MainPool
    \/ PoolMap
    \/ WorkerTake
    \/ WorkerRaise

SpecBatch == InitBatch /\ [][NextBatch]_vars

----------------------------------------------------------------------------
(* Properties of the source matcher *)

\* the lattice nodes (r, c), numbered from 1
NodeCount  == NRows * NCols
NodeRow(n) == (n - 1) \div NCols
NodeCol(n) == (n - 1) % NCols

\* lattice node (r, c) of grid g: its local coordinate rotated by theta (of
\* cosine cs and sine sn) and moved to the origin
NodeAt(g, cs, sn, r, c) ==
    LET ly == Sub(Mul(r, g.dy), Half(Mul(NRows - 1, g.dy)))
        lx == Sub(Mul(c, g.dx), Half(Mul(NCols - 1, g.dx)))
    IN  [ Y |-> Add(Add(Times(sn, lx), Times(cs, ly)), g.y0),
          X |-> Add(Sub(Times(cs, lx), Times(sn, ly)), g.x0) ]

\* the positions of the lattice nodes of the fitted grid
FittedNodes ==
    LET g  == model_grid
        cs == Cos(g.theta)
        sn == Sin(g.theta)
    IN  AsArray([n \in 1..NodeCount |-> NodeAt(g, cs, sn, NodeRow(n), NodeCol(n))])

\* the distance from the node of row k to source j, and the sources nearest
\* to that node
NodeDist(k, j) == Hypot(Sub(src[j].x, out.table[k].X), Sub(src[j].y, out.table[k].Y))
Nearest(k) ==
    LET D == AsArray([j \in 1..Len(src) |-> NodeDist(k, j)])
    IN  {j \in 1..Len(src) : /\ ~IsNaN(D[j])
                             /\ \A m \in 1..Len(src) : IsNaN(D[m]) \/ D[j] <= D[m]}
\* the same distance squared, which is exact
Sq(a) == a * a
NodeDist2(k, j) == Sq(src[j].x - out.table[k].X) + Sq(src[j].y - out.table[k].Y)
Residuals(k) == {out.table[k].DX, out.table[k].DY, out.table[k].DXX,
                 out.table[k].DYY, out.table[k].DFLUX}

\* the fit stage is over
FitEnded == pc = "NameError"

----------------------------------------------------------------------------
(* Properties of the grid fitter *)

\* the positions the objective is given, and the grid it is to build from
\* the guess
FitSources == remove_nan_coords(est.y, est.x)
FitGrid    == make_grid(params.guess, NCols, NRows)

\* the distance from observed source a to the grid node nearest to it
SourceToNearestNode(a) ==
    LET D == DistRow(FitSources.y, FitSources.x, FitGrid.Y, FitGrid.X, a)
    IN  Sort(D)[1]

\* C4: the objective, called on the guess, answers the aggregate, over the
\* observed sources, of the distance from each source to its nearest grid
\* node: one term per source.
C4_ObjectiveOverSources ==
    (FitEnded /\ prog = "SpotFitter") =>
        fit_eval = [ raised |-> "none",
                     error |-> Median([a \in 1..Len(FitSources.y) |->
                                         SourceToNearestNode(a)]) ]

----------------------------------------------------------------------------
(* Properties of the estimator *)

EstimateReturned == pc \in {"fit", "NameError"}

\* C5 as stated: the rotation after the swap correction is in [0, pi/4).
C5_RotationNonNegative ==
    (EstimateReturned /\ ~IsNaN(seed.theta)) =>
        (seed.theta >= 0 /\ seed.theta < PiOver4)

\* C5 amended: the rotation after the swap correction is in [-pi/4, pi/4).
C5_RotationRange ==
    (EstimateReturned /\ ~IsNaN(seed.theta)) =>
        (seed.theta >= 0 - PiOver4 /\ seed.theta < PiOver4)

\* an aggregated angle of exactly pi/4, corrected to -pi/4
C5_Witness ==
    /\ pc = "fit"
    /\ NanMedian(est.theta_array) = PiOver4
    /\ seed.theta = 0 - PiOver4

\* pair (i, j) has been through the inner loop
Processed(i, j) == pc # "start" /\ (i < est.i \/ (i = est.i /\ j < est.j))
PairDist(i, j)  == est.nn_distances[i][j]
PairNb(i, j)    == est.nn_indices[i][j]
\* the pair's distance is within 10 pixels of med_dist, 10 included
Within10(i, j)  == PairDist(i, j) - est.med_dist <= Px(10)
                   /\ est.med_dist - PairDist(i, j) <= Px(10)
UpRight(i, j)   == est.x[PairNb(i, j)] > est.x[i] /\ est.y[PairNb(i, j)] > est.y[i]
DownRight(i, j) == est.x[PairNb(i, j)] > est.x[i] /\ est.y[PairNb(i, j)] <= est.y[i]
\* the processed pairs of source i that are not discarded
KeptPairs(i)    == {j \in 1..4 : Processed(i, j) /\ Within10(i, j)}
Last(S)         == CHOOSE j \in S : \A m \in S : m <= j
\* what the kept pairs alone write for source i
KeptDist1(i) == LET S == {j \in KeptPairs(i) : UpRight(i, j)}
                IN  IF S = {} THEN NaN ELSE PairDist(i, Last(S))
KeptDist2(i) == LET S == {j \in KeptPairs(i) : DownRight(i, j)}
                IN  IF S = {} THEN NaN ELSE PairDist(i, Last(S))
KeptTheta(i) == LET S == {j \in KeptPairs(i) : UpRight(i, j)}
                IN  IF S = {} THEN NaN
                    ELSE ArcTan(est.y[PairNb(i, Last(S))] - est.y[i],
                                est.x[PairNb(i, Last(S))] - est.x[i])
KeptArrays == [ est EXCEPT
                  !.dist1_array = [i \in 1..est.nsources |-> KeptDist1(i)],
                  !.dist2_array = [i \in 1..est.nsources |-> KeptDist2(i)],
                  !.theta_array = [i \in 1..est.nsources |-> KeptTheta(i)] ]

\* C8: a pair more than 10 pixels from med_dist writes nothing, a pair
\* exactly 10 pixels from it is kept: dist1, dist2 and theta_candidates, and
\* the aggregated theta and spacings, are what the kept pairs alone give.
C8_OutliersDiscarded ==
    /\ pc = "loop" =>
         /\ est.dist1_array = KeptArrays.dist1_array
         /\ est.dist2_array = KeptArrays.dist2_array
         /\ est.theta_array = KeptArrays.theta_array
    /\ pc = "fit" => seed = EstimatorResult(KeptArrays)

\* a source with a right-hand neighbour exactly 10 pixels from med_dist,
\* which is recorded, and a right-hand neighbour further from it, which is
\* not
C8_Witness ==
    /\ pc = "fit"
    /\ \E i \in 1..est.nsources : \E j \in 1..4 :
         /\ PairDist(i, j) - est.med_dist = Px(10)
         /\ DownRight(i, j)
         /\ est.dist2_array[i] = PairDist(i, j)
    /\ \E i \in 1..est.nsources : \E j \in 1..4 :
         /\ PairDist(i, j) - est.med_dist > Px(10)
         /\ est.x[PairNb(i, j)] > est.x[i]
         /\ est.dist2_array[i] # PairDist(i, j)
         /\ est.dist1_array[i] # PairDist(i, j)

\* C9: with no valid sample for the angle or for a spacing the run fails:
\* no estimate with a missing value is returned and no fit starts from one.
C9_InsufficientDataFails ==
    EstimateReturned => (~IsNaN(seed.theta) /\ ~IsNaN(seed.dx) /\ ~IsNaN(seed.dy))

----------------------------------------------------------------------------
(* Properties of make_grid *)

\* the coordinate of lattice node (r, c) before rotation and translation
LocalY(r) == r * gp.dy - DivR((gp.nrows - 1) * gp.dy, 2)
LocalX(c) == c * gp.dx - DivR((gp.ncols - 1) * gp.dx, 2)

\* C6 as stated: the arrays have rows*cols entries in row-major order: the
\* entry at flattened index r*cols + c (from 0) is node (r, c).
C6_RowMajor ==
    gpc \in {"meshed", "done"} =>
        /\ Len(gmesh.Y) = gp.nrows * gp.ncols
        /\ Len(gmesh.X) = gp.nrows * gp.ncols
        /\ \A r \in 0..(gp.nrows - 1) : \A c \in 0..(gp.ncols - 1) :
             /\ gmesh.Y[r * gp.ncols + c + 1] = LocalY(r)
             /\ gmesh.X[r * gp.ncols + c + 1] = LocalX(c)

\* C6 amended: the arrays have rows*cols entries with the row index running
\* fastest: the entry at flattened index c*rows + r (from 0) is node (r, c),
\* and the returned arrays hold the nodes in that order.
C6_RowIndexFastest ==
    /\ gpc \in {"meshed", "done"} =>
         /\ Len(gmesh.Y) = gp.nrows * gp.ncols
         /\ Len(gmesh.X) = gp.nrows * gp.ncols
         /\ \A r \in 0..(gp.nrows - 1) : \A c \in 0..(gp.ncols - 1) :
              /\ gmesh.Y[c * gp.nrows + r + 1] = LocalY(r)
              /\ gmesh.X[c * gp.nrows + r + 1] = LocalX(c)
    /\ gpc = "done" =>
         /\ Len(gout.Y) = gp.nrows * gp.ncols
         /\ Len(gout.X) = gp.nrows * gp.ncols
         /\ \A r \in 0..(gp.nrows - 1) : \A c \in 0..(gp.ncols - 1) :
              /\ gout.Y[c * gp.nrows + r + 1] =
                   MulU(LocalX(c), Sin(gp.theta)) + MulU(LocalY(r), Cos(gp.theta)) + gp.y0
              /\ gout.X[c * gp.nrows + r + 1] =
                   MulU(LocalX(c), Cos(gp.theta)) - MulU(LocalY(r), Sin(gp.theta)) + gp.x0

\* a grid with more columns than rows, both more than one, and unequal
\* spacings
C6_Witness ==
    /\ gpc = "done"
    /\ gp.nrows > 1
    /\ gp.ncols > gp.nrows
    /\ gp.dy # gp.dx
    /\ gp.theta # 0

----------------------------------------------------------------------------
(* Properties of main() *)

\* C10 as stated: the pool is never larger than the number of cores less one.
C10_PoolBelowCores ==
    mpc = "pool" => pool_size <= cpu_count - 1

\* C10 amended: the pool is never larger than the number of cores less one,
\* except that it has one worker when that number is 0 (a single core); it
\* always has at least one worker, never more than were requested when at
\* least one was, and is the lesser of the requested count and the cores
\* less one whenever that is at least 1.
C10_PoolBelowCoresOrOne ==
    mpc = "pool" =>
        /\ pool_size >= 1
        /\ pool_size <= (IF cpu_count >= 2 THEN cpu_count - 1 ELSE 1)
        /\ num_processes >= 1 => pool_size <= num_processes
        /\ (num_processes >= 1 /\ cpu_count >= 2) =>
              \/ pool_size = num_processes /\ num_processes <= cpu_count - 1
              \/ pool_size = cpu_count - 1 /\ cpu_count - 1 <= num_processes
        /\ (num_processes < 1 \/ cpu_count < 2) => pool_size = 1

\* more processes requested than cores: the pool is cut to cores - 1
C10_Witness ==
    /\ mpc = "pool"
    /\ cpu_count >= 2
    /\ num_processes > cpu_count
    /\ pool_size = cpu_count - 1

----------------------------------------------------------------------------
(* The estimator on its own: from_source_catalog lines 128-174,
   SourceGridTask.run lines 57-105, on catalogs of at least five measured
   detections, some of them at the same position *)

\* Detections on a 10 pixel lattice; the sixth is a second detection at the
\* position of the first
LatticePool == <<
    Source(Px(0),  Px(0),  11, 21, 100),
    Source(Px(10), Px(10), 12, 22, 200),
    Source(Px(20), Px(40), 13, 23, 300),
    Source(Px(0),  Px(10), 14, 24, 400),
    Source(Px(20), Px(10), 15, 25, 500),
    Source(Px(0),  Px(0),  16, 26, 600),
    Source(Px(20), Px(30), 17, 27, 700) >>

RECURSIVE PickFrom(_, _, _)
\* the rows of P whose index is in S, in P's order
PickFrom(P, S, k) ==
    IF k > Len(P) THEN <<>>
    ELSE (IF k \in S THEN <<P[k]>> ELSE <<>>) \o PickFrom(P, S, k + 1)

\* catalogs with a source and four neighbours at least
LatticeCatalogs ==
    {PickFrom(LatticePool, S, 1) : S \in {T \in SUBSET (1..Len(LatticePool)) :
                            Cardinality(T) >= 5 /\ Cardinality(T) <= MaxSources}}

InitEst ==
    /\ prog \in {"SpotFitter", "SourceGridTask"}
    /\ infile = CatalogPath
    /\ src \in LatticeCatalogs
    /\ ccd = [ y |-> 0, x |-> 0 ]
    /\ max_displacement = DefaultDisplacement
    /\ pc = "start"
    /\ est = NoEst
    /\ seed = NoSeed
    /\ params = NoParams
    /\ fit_eval = NoEval
    /\ model_grid = NoGrid
    /\ out = NoOut
    /\ GridIdle
    /\ MainIdle

NextEst ==
    \/ EstimateBegin
    \/ NeighbourStep
    \/ Aggregate

SpecEst == InitEst /\ [][NextEst]_vars

----------------------------------------------------------------------------
(* Properties of the batch *)

----------------------------------------------------------------------------
(* Properties of the estimator's neighbour search *)

\* the estimator holds its neighbour tables, for five sources or more
EstLoaded == pc \in {"loop", "fit"} /\ est.nsources >= 5

\* the self-set search the estimator starts from
SelfSearch == [ indices |-> est.indices, distances |-> est.distances ]

\* the other sources at the position of source i
Twins(i) == {k \in 1..est.nsources :
               k # i /\ est.y[k] = est.y[i] /\ est.x[k] = est.x[i]}

\* the four smallest distances from source i to the sources other than i
NearestOthers(i) ==
    LET D == DistRow(est.y, est.x, est.y, est.x, i)
        O == Sort(SelectIdx(D, [k \in 1..Len(D) |-> k # i], 1))
    IN  SubSeq(O, 1, 4)

\* C12 as stated: rank 0 of every source's neighbour list is the source
\* itself at distance 0, and ranks 1 to 4 are its four nearest other sources,
\* never the source itself.
C12_SelfAtRankZero ==
    EstLoaded =>
        \A i \in 1..est.nsources :
            /\ SelfSearch.indices[i][1] = i
            /\ SelfSearch.distances[i][1] = 0
            /\ \A j \in 1..4 : est.nn_indices[i][j] # i
            /\ est.nn_distances[i] = NearestOthers(i)

\* C12: rank 0 of every source's neighbour list is at distance 0 and is a
\* source at that source's position: the source itself when no other source
\* shares its position, and then ranks 1 to 4 never hold the source itself.
\* When rank 0 is another source at its position, the source itself is
\* among its ranks 1 to 4.
\* The distances at ranks 1 to 4 are always the four smallest distances to
\* the other sources.
C12_SelfOrTwinAtRankZero ==
    EstLoaded =>
        LET search == SelfSearch
        IN  \A i \in 1..est.nsources :
            LET r0 == search.indices[i][1]
            IN  /\ search.distances[i][1] = 0
                /\ r0 = i \/ r0 \in Twins(i)
                /\ Twins(i) = {} =>
                     (r0 = i /\ \A j \in 1..4 : est.nn_indices[i][j] # i)
                /\ r0 # i => \E j \in 1..4 : est.nn_indices[i][j] = i
                /\ est.nn_distances[i] = NearestOthers(i)

\* a source that shares its position with an earlier one and is its own
\* rank 1 neighbour, next to a source alone at its position
C12_Witness ==
    /\ EstLoaded
    /\ \E i \in 1..est.nsources :
         /\ Twins(i) # {}
         /\ SelfSearch.indices[i][1] # i
         /\ est.nn_indices[i][1] = i
    /\ \E i \in 1..est.nsources :
         /\ Twins(i) = {}
         /\ SelfSearch.indices[i][1] = i
         /\ est.nn_distances[i][1] > 0

----------------------------------------------------------------------------
(* Properties of the estimator's choice of neighbour *)

\* the kept pairs of source i whose neighbour is up and right of it
KeptUpRight(i) == {j \in KeptPairs(i) : UpRight(i, j)}

\* those of them whose neighbour is nearest
NearestUpRight(i) ==
    {j \in KeptUpRight(i) : \A m \in KeptUpRight(i) : PairDist(i, j) <= PairDist(i, m)}

\* C13: once the four neighbours of a source are processed, its dist1 and
\* theta sample are those of the nearest kept neighbour up and right of it.
C13_NearestUpRightUsed ==
    pc \in {"loop", "fit"} =>
        \A i \in 1..est.nsources :
            (Processed(i, 4) /\ KeptUpRight(i) # {}) =>
                \E j \in NearestUpRight(i) :
                    /\ est.dist1_array[i] = PairDist(i, j)
                    /\ est.theta_array[i] =
                         ArcTan(est.y[PairNb(i, j)] - est.y[i],
                                est.x[PairNb(i, j)] - est.x[i])

====
